---- MODULE Spec2Model ----
(***************************************************************************)
(* Waste Tracker (src/src/waste_tracker.py): the JSONL log store, the      *)
(* interactive log-entry and delete flows, the summary and the CSV export. *)
(*                                                                         *)
(* Text is a sequence of one-character strings, so that str.strip,         *)
(* str.lower and the substring test are computed, not assumed.             *)
(* A float is a tagged record: a finite value n/Scale, or nan, inf, ninf.  *)
(* A log line is blank, not JSON ("garbage"), or a JSON object given by    *)
(* its members (key -> JSON value).                                        *)
(***************************************************************************)
EXTENDS Integers, Sequences, FiniteSets, TLC

\* ------------------------------------------------------------------ bounds
MaxInitLines == 2
MaxAppends == 1

\* finite floats are the rationals n/Scale; Scale is 16*16 so that the
\* decimal inputs used and their division by 16.0 are exact
Scale == 16 * 16

\* ------------------------------------------------------------------ text
Upper == <<"A","B","C","D","E","F","G","H","I","J","K","L","M",
           "N","O","P","Q","R","S","T","U","V","W","X","Y","Z">>
LowerLetters == <<"a","b","c","d","e","f","g","h","i","j","k","l","m",
                  "n","o","p","q","r","s","t","u","v","w","x","y","z">>
Digits == <<"0","1","2","3","4","5","6","7","8","9">>

IsSpace(c) == c \in {" ", "\t"}

LowerChar(c) ==
    IF \E i \in 1..26 : Upper[i] = c
    THEN LowerLetters[CHOOSE i \in 1..26 : Upper[i] = c]
    ELSE c

\* str.lower()
Lower(s) == [i \in 1..Len(s) |-> LowerChar(s[i])]

\* str.strip()
Strip(s) ==
    IF \A i \in 1..Len(s) : IsSpace(s[i])
    THEN <<>>
    ELSE LET a == CHOOSE i \in 1..Len(s) :
                      ~IsSpace(s[i]) /\ \A j \in 1..(i-1) : IsSpace(s[j])
             b == CHOOSE i \in 1..Len(s) :
                      ~IsSpace(s[i]) /\ \A j \in (i+1)..Len(s) : IsSpace(s[j])
         IN  SubSeq(s, a, b)

\* Python's `sub in s` for strings
Contains(s, sub) ==
    \E i \in 1..(Len(s) - Len(sub) + 1) : SubSeq(s, i, i + Len(sub) - 1) = sub

IsDigit(c) == \E i \in 1..10 : Digits[i] = c
DigitVal(c) == (CHOOSE i \in 1..10 : Digits[i] = c) - 1

RECURSIVE DigitsVal(_)
DigitsVal(s) ==
    IF s = <<>> THEN 0
    ELSE 10 * DigitsVal(SubSeq(s, 1, Len(s) - 1)) + DigitVal(s[Len(s)])

RECURSIVE Pow10(_)
Pow10(k) == IF k = 0 THEN 1 ELSE 10 * Pow10(k - 1)

AllDigits(s) == \A i \in 1..Len(s) : IsDigit(s[i])

HasSign(s) == Len(s) > 0 /\ s[1] \in {"+", "-"}
Unsigned(s) == IF HasSign(s) THEN Tail(s) ELSE s
SignOf(s) == IF Len(s) > 0 /\ s[1] = "-" THEN -1 ELSE 1

\* ------------------------------------------------------------------ floats
Num(n) == [k |-> "num", n |-> n]
NaN == [k |-> "nan", n |-> 0]
Inf == [k |-> "inf", n |-> 0]
NegInf == [k |-> "ninf", n |-> 0]

\* a + b on floats
FAdd(a, b) ==
    CASE a.k = "nan" \/ b.k = "nan" -> NaN
      [] a.k = "inf" /\ b.k = "ninf" -> NaN
      [] a.k = "ninf" /\ b.k = "inf" -> NaN
      [] a.k = "inf" \/ b.k = "inf" -> Inf
      [] a.k = "ninf" \/ b.k = "ninf" -> NegInf
      [] OTHER -> Num(a.n + b.n)

\* v <= 0 on floats (False for nan)
FLeZero(v) == v.k = "ninf" \/ (v.k = "num" /\ v.n <= 0)

\* v > 0 on floats (False for nan)
FGtZero(v) == v.k = "inf" \/ (v.k = "num" /\ v.n > 0)

\* v / 16.0
FDiv16(v) == IF v.k = "num" THEN Num(v.n \div 16) ELSE v

\* float(str): [ok, v]; ok = FALSE is ValueError.  Accepts an optional sign
\* followed by digits with an optional fraction, or by nan / inf / infinity
\* in any letter case.
FloatWords ==
    [nan |-> <<"n","a","n">>, inf |-> <<"i","n","f">>,
     infinity |-> <<"i","n","f","i","n","i","t","y">>]

ParseFloat(raw) ==
    LET s == Strip(raw)
        u == Unsigned(s)
        w == Lower(u)
        dot == IF \E i \in 1..Len(u) : u[i] = "."
               THEN CHOOSE i \in 1..Len(u) : u[i] = "." ELSE 0
        ip == IF dot = 0 THEN u ELSE SubSeq(u, 1, dot - 1)
        fp == IF dot = 0 THEN <<>> ELSE SubSeq(u, dot + 1, Len(u))
    IN  CASE w = FloatWords.nan -> [ok |-> TRUE, v |-> NaN]
          [] w = FloatWords.inf \/ w = FloatWords.infinity ->
                 [ok |-> TRUE, v |-> IF SignOf(s) = -1 THEN NegInf ELSE Inf]
          [] OTHER ->
                 IF AllDigits(ip) /\ AllDigits(fp) /\ Len(ip) + Len(fp) > 0
                 THEN [ok |-> TRUE,
                       v |-> Num(SignOf(s) * (DigitsVal(ip) * Scale
                                 + (DigitsVal(fp) * Scale) \div Pow10(Len(fp))))]
                 ELSE [ok |-> FALSE, v |-> NaN]

\* int(str): [ok, v]; ok = FALSE is ValueError
ParseInt(raw) ==
    LET s == Strip(raw)
        u == Unsigned(s)
    IN  IF Len(u) > 0 /\ AllDigits(u)
        THEN [ok |-> TRUE, v |-> SignOf(s) * DigitsVal(u)]
        ELSE [ok |-> FALSE, v |-> 0]

\* ------------------------------------------------------------------ constants
VALID_STATIONS ==
    << <<"p","a","s","t","a">>,
       <<"g","r","i","l","l">>,
       <<"m","i","d","d","l","e">>,
       <<"s","a","l","u","m","i">>,
       <<"p","a","s","t","a","_","p","r","e","p">>,
       <<"o","t","h","e","r","_","p","r","e","p">> >>

VALID_WASTE_TYPES ==
    << <<"t","r","i","m">>,
       <<"s","p","o","i","l","a","g","e">>,
       <<"o","v","e","r","p","r","o","d","u","c","t","i","o","n">>,
       <<"b","u","r","n","t","/","o","v","e","r","c","o","o","k","e","d">> >>

VALID_QUANTITY_TYPES == << <<"l","b","s">>, <<"o","z">>, <<"p","o">>, <<"q","t">> >>

T_lbs == <<"l","b","s">>
T_oz == <<"o","z">>
T_po == <<"p","o">>
T_qt == <<"q","t">>
T_list == <<"l","i","s","t">>
T_y == <<"y">>

Range(s) == {s[i] : i \in 1..Len(s)}

\* ------------------------------------------------------------------ WasteEntry
\* uid stands for the value of str(uuid.uuid4()), now for
\* datetime.now().isoformat(); both are integers in the model
WasteEntry(uid, now, station, waste_type, item_name, quantity_type, quantity_value, notes) ==
    [id |-> uid, timestamp |-> now, station |-> station,
     waste_type |-> waste_type, item_name |-> item_name,
     quantity_type |-> quantity_type, quantity_value |-> quantity_value,
     notes |-> notes]

FieldNames == <<"id", "timestamp", "station", "waste_type", "item_name",
                "quantity_type", "quantity_value", "notes">>

to_dict(e) == [key \in Range(FieldNames) |-> e[key]]

\* JSON values: a string token or a number token
JStr(x) == [t |-> "str", v |-> x]
JNum(x) == [t |-> "num", v |-> x]

\* the three shapes of a log line
Blank == [kind |-> "blank", members |-> <<>>]
Garbage == [kind |-> "garbage", members |-> <<>>]
JObject(m) == [kind |-> "obj", members |-> m]

\* json.dumps(self.to_dict())
to_json(e) ==
    LET d == to_dict(e)
    IN  JObject([key \in DOMAIN d |->
                   IF key = "quantity_value" THEN JNum(d[key]) ELSE JStr(d[key])])

\* from_json without the two assignments after the constructor call: the
\* entry keeps the id and the timestamp the constructor made
FromJsonMintsNew(json_str, uid, now) ==
    IF json_str.kind # "obj"
    THEN [err |-> "JSONDecodeError", entries |-> <<>>]
    ELSE LET data == json_str.members
         IN  IF ~({"station", "waste_type", "item_name", "quantity_type",
                   "quantity_value", "id", "timestamp"} \subseteq DOMAIN data)
             THEN [err |-> "KeyError", entries |-> <<>>]
             ELSE [err |-> "ok",
                   entries |-> << WasteEntry(uid, now, data["station"].v,
                              data["waste_type"].v, data["item_name"].v,
                              data["quantity_type"].v, data["quantity_value"].v,
                              IF "notes" \in DOMAIN data THEN data["notes"].v
                                                         ELSE <<>>) >>]

\* WasteEntry.from_json: [err, entries]; err is "ok", "JSONDecodeError" or
\* "KeyError"; entries holds the entry when err = "ok".  uid and now are the
\* id and timestamp the constructor call inside from_json generates.
from_json(json_str, uid, now) ==
    IF json_str.kind # "obj"
    THEN [err |-> "JSONDecodeError", entries |-> <<>>]
    ELSE LET data == json_str.members
         IN  IF ~({"station", "waste_type", "item_name", "quantity_type",
                   "quantity_value", "id", "timestamp"} \subseteq DOMAIN data)
             THEN [err |-> "KeyError", entries |-> <<>>]
             ELSE LET entry ==
                          WasteEntry(uid, now, data["station"].v,
                              data["waste_type"].v, data["item_name"].v,
                              data["quantity_type"].v, data["quantity_value"].v,
                              IF "notes" \in DOMAIN data THEN data["notes"].v
                                                         ELSE <<>>)
                  IN  [err |-> "ok",
                       entries |-> << [entry EXCEPT !.id = data["id"].v,
                                             !.timestamp = data["timestamp"].v] >>]

\* ------------------------------------------------------------------ log store
\* The log file: exists, its lines, and eofnl: whether its content ends with
\* a newline (TRUE for an empty file).
NoFile == [exists |-> FALSE, lines |-> <<>>, eofnl |-> TRUE]

\* the text of an unterminated last line followed by the text of a record
Concat(line, rec) == IF line.kind = "blank" THEN rec ELSE Garbage

\* save_entry: open(filename, "a") and write to_json() + "\n"
save_entry(entry, f) ==
    [exists |-> TRUE,
     lines |-> IF f.lines = <<>> \/ f.eofnl
               THEN Append(f.lines, to_json(entry))
               ELSE [f.lines EXCEPT ![Len(f.lines)] = Concat(@, to_json(entry))],
     eofnl |-> TRUE]

\* the loop of load_entries with break in place of continue on a line that
\* is not JSON
RECURSIVE LoadFromStopsAtMalformed(_, _, _, _, _)
LoadFromStopsAtMalformed(lines, i, acc, uid, now) ==
    IF i > Len(lines)
    THEN [raised |-> FALSE, entries |-> acc.entries, warnings |-> acc.warnings]
    ELSE IF lines[i].kind = "blank"
    THEN LoadFromStopsAtMalformed(lines, i + 1, acc, uid, now)
    ELSE LET r == from_json(lines[i], uid, now)
         IN  CASE r.err = "JSONDecodeError" ->
                      [raised |-> FALSE, entries |-> acc.entries,
                       warnings |-> acc.warnings + 1]
               [] r.err = "KeyError" ->
                      [raised |-> TRUE, entries |-> <<>>,
                       warnings |-> acc.warnings]
               [] OTHER ->
                      LoadFromStopsAtMalformed(lines, i + 1,
                               [acc EXCEPT !.entries = @ \o r.entries], uid, now)

\* the loop of load_entries from line i on; acc is the list built so far
RECURSIVE LoadFrom(_, _, _, _, _)
LoadFrom(lines, i, acc, uid, now) ==
    IF i > Len(lines)
    THEN [raised |-> FALSE, entries |-> acc.entries, warnings |-> acc.warnings]
    ELSE IF lines[i].kind = "blank"
    THEN LoadFrom(lines, i + 1, acc, uid, now)
    ELSE LET r == from_json(lines[i], uid, now)
         IN  CASE r.err = "JSONDecodeError" ->
                      LoadFrom(lines, i + 1,
                               [acc EXCEPT !.warnings = @ + 1], uid, now)
               [] r.err = "KeyError" ->
                      [raised |-> TRUE, entries |-> <<>>,
                       warnings |-> acc.warnings]
               [] OTHER ->
                      LoadFrom(lines, i + 1,
                               [acc EXCEPT !.entries = @ \o r.entries], uid, now)

\* load_entries: [raised, entries, warnings]; raised = TRUE is the KeyError
\* that escapes the function
load_entries(f, uid, now) ==
    IF ~f.exists
    THEN [raised |-> FALSE, entries |-> <<>>, warnings |-> 0]
    ELSE LoadFrom(f.lines, 1, [entries |-> <<>>, warnings |-> 0], uid, now)

search_entries_by_item(search_term, entries) ==
    SelectSeq(entries,
              LAMBDA entry : Contains(Lower(entry.item_name), Lower(search_term)))

\* the rewrite with the lines joined by newlines, none after the last
RewriteJoined(updated_entries) ==
    [exists |-> TRUE,
     lines |-> [i \in 1..Len(updated_entries) |-> to_json(updated_entries[i])],
     eofnl |-> updated_entries = <<>>]

\* the rewrite of delete_entry: open(JSONL_FILE, 'w') and one line per entry
Rewrite(updated_entries) ==
    [exists |-> TRUE,
     lines |-> [i \in 1..Len(updated_entries) |-> to_json(updated_entries[i])],
     eofnl |-> TRUE]

\* ------------------------------------------------------------------ summary
ZeroBucket == [weight |-> Num(0), portions |-> Num(0), volume |-> Num(0)]

\* d[key][field] = q in place of +=
BumpAssigns(d, key, field, q) ==
    LET cur == IF key \in DOMAIN d THEN d[key] ELSE ZeroBucket
    IN  [k \in (DOMAIN d) \cup {key} |->
           IF k = key THEN [cur EXCEPT ![field] = q] ELSE d[k]]

\* d[key][field] += q on a defaultdict of buckets
Bump(d, key, field, q) ==
    LET cur == IF key \in DOMAIN d THEN d[key] ELSE ZeroBucket
    IN  [k \in (DOMAIN d) \cup {key} |->
           IF k = key THEN [cur EXCEPT ![field] = FAdd(@, q)] ELSE d[k]]

\* d[key] += 1 on a defaultdict(int)
Count(d, key) ==
    [k \in (DOMAIN d) \cup {key} |->
       IF k = key THEN (IF key \in DOMAIN d THEN d[key] ELSE 0) + 1 ELSE d[k]]

EmptySummary ==
    [total_entries |-> 0, weight_lbs |-> Num(0), portions |-> Num(0),
     volume_qt |-> Num(0), by_station |-> <<>>, by_waste_type |-> <<>>,
     item_frequency |-> <<>>]

\* one iteration of the loop of generate_summary
SummaryStep(summary, entry) ==
    LET s1 == [summary EXCEPT
                 !.item_frequency = Count(@, entry.item_name)]
        q == entry.quantity_value
    IN  CASE entry.quantity_type = T_lbs ->
                 [s1 EXCEPT !.weight_lbs = FAdd(@, q),
                            !.by_station = Bump(@, entry.station, "weight", q),
                            !.by_waste_type = Bump(@, entry.waste_type, "weight", q)]
          [] entry.quantity_type = T_po ->
                 [s1 EXCEPT !.portions = FAdd(@, q),
                            !.by_station = Bump(@, entry.station, "portions", q),
                            !.by_waste_type = Bump(@, entry.waste_type, "portions", q)]
          [] entry.quantity_type = T_qt ->
                 [s1 EXCEPT !.volume_qt = FAdd(@, q),
                            !.by_station = Bump(@, entry.station, "volume", q),
                            !.by_waste_type = Bump(@, entry.waste_type, "volume", q)]
          [] OTHER -> s1

RECURSIVE SummaryLoop(_, _, _)
SummaryLoop(summary, entries, i) ==
    IF i > Len(entries) THEN summary
    ELSE SummaryLoop(SummaryStep(summary, entries[i]), entries, i + 1)

generate_summary(entries) ==
    SummaryLoop([EmptySummary EXCEPT !.total_entries = Len(entries)], entries, 1)

\* ------------------------------------------------------------------ prompts
\* prompt_choice on one response: [ok, v]; ok = FALSE prints the message and
\* asks again
prompt_choice(response, choices) ==
    LET r == Lower(Strip(response))
    IN  IF \E i \in 1..Len(choices) : Lower(choices[i]) = r
        THEN [ok |-> TRUE,
              v |-> choices[CHOOSE i \in 1..Len(choices) : Lower(choices[i]) = r]]
        ELSE [ok |-> FALSE, v |-> <<>>]

\* prompt_quantity_value on one response: [ok, v]; ok = FALSE asks again
prompt_quantity_value(raw_value) ==
    LET p == ParseFloat(Strip(raw_value))
    IN  IF ~p.ok THEN [ok |-> FALSE, v |-> NaN]
        ELSE IF FLeZero(p.v) THEN [ok |-> FALSE, v |-> NaN]
        ELSE [ok |-> TRUE, v |-> p.v]

\* the ounce conversion without the assignment quantity_type = "lbs"
ConvertOuncesKeepsUnit(quantity_type, quantity_value) ==
    IF quantity_type = T_oz
    THEN [quantity_type |-> quantity_type, quantity_value |-> FDiv16(quantity_value)]
    ELSE [quantity_type |-> quantity_type, quantity_value |-> quantity_value]

\* the ounce conversion of log_new_waste_entry: [quantity_type, quantity_value]
ConvertOunces(quantity_type, quantity_value) ==
    IF quantity_type = T_oz
    THEN [quantity_type |-> T_lbs, quantity_value |-> FDiv16(quantity_value)]
    ELSE [quantity_type |-> quantity_type, quantity_value |-> quantity_value]

\* ------------------------------------------------------------------ delete
\* updated_entries filtered on the item name in place of the id
RemainingByItemName(entries, selected) ==
    SelectSeq(entries, LAMBDA e : e.item_name # selected.item_name)

\* updated_entries of delete_entry
Remaining(entries, selected) ==
    SelectSeq(entries, LAMBDA e : e.id # selected.id)

\* ------------------------------------------------------------------ inputs
\* what the user may type at each prompt
StationInputs == { <<" ","G","r","i","l","l">>, <<"b","a","r">> }
WasteTypeInputs == { <<"T","R","I","M"," ">>, <<>> }
ItemInputs == { <<" ">>, <<" ","E","g","g"," ">> }
QuantityTypeInputs == { <<"o","z">>, <<"P","O">>, <<"k","g">> }
QuantityValueInputs ==
    { <<"2">>, <<"0">>, <<"-","1">>, <<"x">>, <<"n","a","n">>, <<>> }
NotesInputs == { <<" ","o","k">> }
SearchInputs == { <<>>, <<"L","i","s","t">>, <<"E","G">> }
ChoiceInputs == { <<"0">>, <<"1">>, <<" ","2">>, <<"x">>, <<"-","1">> }
ConfirmInputs == { <<" ","Y">>, <<"n">> }

\* entries a log file may hold before the program starts
InitEntries ==
    << WasteEntry(1, 0, <<"g","r","i","l","l">>, <<"t","r","i","m">>,
                  <<"E","g","g">>, T_lbs, Num(2 * Scale), <<>>),
       WasteEntry(2, 0, <<"p","a","s","t","a">>, <<"s","p","o","i","l","a","g","e">>,
                  <<"e","e","l">>, T_oz, Num(3 * Scale), <<>>),
       WasteEntry(1, 0, <<"g","r","i","l","l">>, <<"s","p","o","i","l","a","g","e">>,
                  <<"e","g","g","s">>, T_po, Num(Scale), <<"x">>) >>

Without(line, key) ==
    JObject([k \in (DOMAIN line.members) \ {key} |-> line.members[k]])

\* lines a log file may hold before the program starts: a record, a record
\* without notes, a record with the id of the first, a record without
\* station, a blank line, a line that is not JSON
InitLines ==
    { to_json(InitEntries[1]),
      Without(to_json(InitEntries[2]), "notes"),
      to_json(InitEntries[3]),
      Without(to_json(InitEntries[2]), "station"),
      Blank, Garbage }

SeqsUpTo(S, n) == UNION { [1..k -> S] : k \in 0..n }

InitLogs ==
    { NoFile } \cup
    { [exists |-> TRUE, lines |-> ls, eofnl |-> nl] :
        ls \in SeqsUpTo(InitLines, MaxInitLines), nl \in BOOLEAN }

FirstFreshId == Len(InitEntries)

EmptyDraft ==
    [station |-> <<>>, waste_type |-> <<>>, item_name |-> <<>>,
     quantity_type |-> <<>>, quantity_value |-> Num(0),
     entered_type |-> <<>>, entered_value |-> Num(0)]

\* ------------------------------------------------------------------ state
VARIABLES
    pc,         \* where the program waits for input: "menu", a prompt of
                \* log_new_waste_entry, "exit" or "crashed"
    log,        \* the log file (JSONL_FILE)
    nextId,     \* ids below it have been generated or were in the first log
    clock,      \* datetime.now()
    draft,      \* the locals of log_new_waste_entry
    op,         \* what the last step did
    before,     \* the log file before the last menu action completed
    loaded,     \* what load_entries returned in the last menu action
    appended,   \* the entry the last log-entry action saved (0 or 1 entries)
    selected,   \* the entry selected in the last delete (0 or 1 entries)
    summary,    \* what generate_summary returned in the last menu action
    answers,    \* the responses the last delete_entry read, in order
    deleted     \* ids of the entries deleted so far

vars == <<pc, log, nextId, clock, draft, op, before, loaded, appended,
          selected, summary, answers, deleted>>

Init ==
    /\ pc = "menu"
    /\ log \in InitLogs
    /\ (log.lines = <<>> => log.eofnl)
    /\ nextId = FirstFreshId + 1
    /\ clock = 1
    /\ draft = EmptyDraft
    /\ op = "start"
    /\ before = log
    /\ loaded = <<>>
    /\ appended = <<>>
    /\ selected = <<>>
    /\ summary = EmptySummary
    /\ answers = <<>>
    /\ deleted = {}

\* a menu action returns to the menu with these observations
Done(o, f, ld, ap, sel, sm, ans) ==
    /\ pc' = CASE o = "log_start" -> "station"
               [] o = "exit" -> "exit"
               [] OTHER -> "menu"
    /\ op' = o
    /\ before' = log
    /\ log' = f
    /\ loaded' = ld
    /\ appended' = ap
    /\ selected' = sel
    /\ summary' = sm
    /\ answers' = ans

\* an uncaught exception ends the program
Crash(o) ==
    /\ pc' = "crashed"
    /\ op' = o
    /\ before' = log
    /\ loaded' = <<>>
    /\ appended' = <<>>
    /\ selected' = <<>>
    /\ summary' = EmptySummary
    /\ answers' = <<>>
    /\ UNCHANGED <<log, nextId, clock, draft, deleted>>

\* ---- main: choice "1", log_new_waste_entry up to its first prompt
ChooseLog ==
    /\ pc = "menu"
    /\ nextId < FirstFreshId + 1 + MaxAppends
    /\ Done("log_start", log, <<>>, <<>>, <<>>, EmptySummary, <<>>)
    /\ draft' = EmptyDraft
    /\ UNCHANGED <<nextId, clock, deleted>>

\* a rejected response: the message is printed and the same prompt asks again
Reprompt == UNCHANGED vars

Accept(next, d) ==
    /\ pc' = next
    /\ draft' = d
    /\ UNCHANGED <<log, nextId, clock, op, before, loaded, appended, selected,
                   summary, answers, deleted>>

PromptStation ==
    /\ pc = "station"
    /\ \E response \in StationInputs :
         LET r == prompt_choice(response, VALID_STATIONS)
         IN  IF r.ok THEN Accept("waste_type", [draft EXCEPT !.station = r.v])
             ELSE Reprompt

PromptWasteType ==
    /\ pc = "waste_type"
    /\ \E response \in WasteTypeInputs :
         LET r == prompt_choice(response, VALID_WASTE_TYPES)
         IN  IF r.ok THEN Accept("item_name", [draft EXCEPT !.waste_type = r.v])
             ELSE Reprompt

PromptItemName ==
    /\ pc = "item_name"
    /\ \E response \in ItemInputs :
         LET item_name == Strip(response)
         IN  IF item_name # <<>>
             THEN Accept("quantity_type", [draft EXCEPT !.item_name = item_name])
             ELSE Reprompt

PromptQuantityType ==
    /\ pc = "quantity_type"
    /\ \E response \in QuantityTypeInputs :
         LET r == prompt_choice(response, VALID_QUANTITY_TYPES)
         IN  IF r.ok
             THEN Accept("quantity_value",
                         [draft EXCEPT !.quantity_type = r.v, !.entered_type = r.v])
             ELSE Reprompt

\* prompt_quantity_value, then the ounce conversion
PromptQuantityValue ==
    /\ pc = "quantity_value"
    /\ \E raw_value \in QuantityValueInputs :
         LET r == prompt_quantity_value(raw_value)
             conv == ConvertOunces(draft.quantity_type, r.v)
         IN  IF r.ok
             THEN Accept("notes",
                         [draft EXCEPT !.entered_value = r.v,
                                       !.quantity_type = conv.quantity_type,
                                       !.quantity_value = conv.quantity_value])
             ELSE Reprompt

\* the notes prompt, the construction of the entry and save_entry
PromptNotes ==
    /\ pc = "notes"
    /\ \E response \in NotesInputs :
         LET entry == WasteEntry(nextId, clock, draft.station, draft.waste_type,
                                 draft.item_name, draft.quantity_type,
                                 draft.quantity_value, Strip(response))
         IN  /\ Done("logged", save_entry(entry, log), <<>>, << entry >>, <<>>,
                     EmptySummary, <<>>)
             /\ nextId' = nextId + 1
             /\ clock' = clock + 1
             /\ UNCHANGED <<draft, deleted>>

\* ---- main: choice "2", view_summary_report
ViewSummary ==
    /\ pc = "menu"
    /\ LET r == load_entries(log, nextId, clock)
       IN  IF r.raised THEN Crash("KeyError")
           ELSE /\ IF r.entries = <<>>
                   THEN Done("summary_empty", log, r.entries, <<>>, <<>>,
                             EmptySummary, <<>>)
                   ELSE Done("summary", log, r.entries, <<>>, <<>>,
                             generate_summary(r.entries), <<>>)
                /\ UNCHANGED <<nextId, clock, draft, deleted>>

\* ---- main: choice "3", export_data_to_csv (the export file is not modelled)
ExportCsv ==
    /\ pc = "menu"
    /\ LET r == load_entries(log, nextId, clock)
       IN  IF r.raised THEN Crash("KeyError")
           ELSE /\ IF r.entries = <<>>
                   THEN Done("export_empty", log, r.entries, <<>>, <<>>,
                             EmptySummary, <<>>)
                   ELSE Done("exported", log, r.entries, <<>>, <<>>,
                             EmptySummary, <<>>)
                /\ UNCHANGED <<nextId, clock, draft, deleted>>

\* ---- main: choice "4", delete_entry
Cancelled(o, entries, sel, ans) ==
    /\ Done(o, log, entries, <<>>, sel, EmptySummary, ans)
    /\ UNCHANGED <<nextId, clock, draft, deleted>>

\* the confirmation test inverted
ConfirmedInverted(confirm_raw) == Lower(Strip(confirm_raw)) # T_y

\* confirm != 'y' is the cancellation
Confirmed(confirm_raw) == Lower(Strip(confirm_raw)) = T_y

DeleteEntry ==
    /\ pc = "menu"
    /\ LET r == load_entries(log, nextId, clock)
           entries == r.entries
       IN
       IF r.raised THEN Crash("KeyError")
       ELSE IF entries = <<>>
            THEN Cancelled("delete_empty", entries, <<>>, <<>>)
       ELSE \E term \in SearchInputs :
         LET search_term == Strip(term)
             matches == IF Lower(search_term) = T_list THEN entries
                        ELSE search_entries_by_item(search_term, entries)
         IN
         IF search_term = <<>>
         THEN Cancelled("delete_noterm", entries, <<>>, << term >>)
         ELSE IF matches = <<>>
         THEN Cancelled("delete_nomatch", entries, <<>>, << term >>)
         ELSE \E choice_raw \in ChoiceInputs :
           LET choice == ParseInt(Strip(choice_raw))
               ans2 == << term, choice_raw >>
           IN
           IF ~choice.ok THEN Cancelled("delete_badnum", entries, <<>>, ans2)
           ELSE IF choice.v = 0
           THEN Cancelled("delete_zero", entries, <<>>, ans2)
           ELSE IF choice.v < 1 \/ choice.v > Len(matches)
           THEN Cancelled("delete_range", entries, <<>>, ans2)
           ELSE \E confirm_raw \in ConfirmInputs :
             LET sel == matches[choice.v]
                 ans3 == << term, choice_raw, confirm_raw >>
             IN
             IF ~Confirmed(confirm_raw)
             THEN Cancelled("delete_unconfirmed", entries, << sel >>, ans3)
             ELSE /\ Done("deleted", Rewrite(Remaining(entries, sel)),
                          entries, <<>>, << sel >>, EmptySummary, ans3)
                  /\ deleted' = deleted \cup {sel.id}
                  /\ UNCHANGED <<nextId, clock, draft>>

\* ---- main: choice "5"
Exit ==
    /\ pc = "menu"
    /\ Done("exit", log, <<>>, <<>>, <<>>, EmptySummary, <<>>)
    /\ UNCHANGED <<nextId, clock, draft, deleted>>

\* ---- main: any other choice
InvalidSelection ==
    /\ pc = "menu"
    /\ Done("invalid_selection", log, <<>>, <<>>, <<>>, EmptySummary, <<>>)
    /\ UNCHANGED <<nextId, clock, draft, deleted>>

Next ==
    \/ ChooseLog
    \/ PromptStation
    \/ PromptWasteType
    \/ PromptItemName
    \/ PromptQuantityType
    \/ PromptQuantityValue
    \/ PromptNotes
    \/ ViewSummary
    \/ ExportCsv
    \/ DeleteEntry
    \/ Exit
    \/ InvalidSelection

Spec == Init /\ [][Next]_vars

\* ------------------------------------------------------------------ properties
\* Vocabulary of the properties, stated on the file and on the entries
\* without the loader.
RequiredKeys == {"id", "timestamp", "station", "waste_type", "item_name",
                 "quantity_type", "quantity_value"}

IsRecordLine(line) == line.kind = "obj" /\ RequiredKeys \subseteq DOMAIN line.members

\* a JSON object without one of the required fields
IsIncompleteLine(line) == line.kind = "obj" /\ ~IsRecordLine(line)

EntryOfLine(line) ==
    [f \in Range(FieldNames) |->
       IF f \in DOMAIN line.members THEN line.members[f].v ELSE <<>>]

WellFormedEntries(f) ==
    LET recs == SelectSeq(f.lines, IsRecordLine)
    IN  [i \in 1..Len(recs) |-> EntryOfLine(recs[i])]

Loads(f) == load_entries(f, nextId, clock)

DistinctIds(entries) ==
    \A i, j \in 1..Len(entries) : entries[i].id = entries[j].id => i = j

IdsInFile(f) ==
    {f.lines[i].members["id"].v :
       i \in {j \in 1..Len(f.lines) :
                f.lines[j].kind = "obj" /\ "id" \in DOMAIN f.lines[j].members}}

ValidEntry(e) ==
    /\ e.station \in Range(VALID_STATIONS)
    /\ e.waste_type \in Range(VALID_WASTE_TYPES)
    /\ e.quantity_type \in Range(VALID_QUANTITY_TYPES)
    /\ e.item_name # <<>>
    /\ ~IsSpace(e.item_name[1]) /\ ~IsSpace(e.item_name[Len(e.item_name)])
    /\ FGtZero(e.quantity_value)

RECURSIVE SumQuantity(_)
SumQuantity(entries) ==
    IF entries = <<>> THEN Num(0)
    ELSE FAdd(SumQuantity(SubSeq(entries, 1, Len(entries) - 1)),
              entries[Len(entries)].quantity_value)

OfStation(entries, st) == SelectSeq(entries, LAMBDA e : e.station = st)
OfUnit(entries, unit) == SelectSeq(entries, LAMBDA e : e.quantity_type = unit)

StationBucket(st) ==
    IF st \in DOMAIN summary.by_station THEN summary.by_station[st] ELSE ZeroBucket

Stations(entries) == {entries[i].station : i \in 1..Len(entries)}

\* the entries the search of a delete shows for a response
Found(term, entries) ==
    IF Lower(Strip(term)) = T_list THEN entries
    ELSE SelectSeq(entries,
                   LAMBDA e : Contains(Lower(e.item_name), Lower(Strip(term))))

CancelledOutcomes ==
    {"delete_empty", "delete_noterm", "delete_nomatch", "delete_badnum",
     "delete_zero", "delete_range", "delete_unconfirmed"}

\* C1: a confirmed delete on a log with distinct ids leaves a log that
\* reloads to exactly the other entries in their original order, and an id
\* that was deleted is never in the log again, whatever is done afterwards.
C1_DeleteCorrect ==
    /\ (op = "deleted" /\ DistinctIds(loaded)) =>
          /\ ~Loads(log).raised
          /\ Loads(log).entries = SelectSeq(loaded, LAMBDA e : e # selected[1])
    /\ IdsInFile(log) \cap deleted = {}

\* C1 witness: B was deleted out of A, B, C
C1_Witness ==
    /\ op = "deleted"
    /\ Len(loaded) = 3
    /\ DistinctIds(loaded)
    /\ selected = << loaded[2] >>
    /\ Len(log.lines) = 2

\* C2: after save_entry(e) the log loads to what it loaded to before,
\* followed by e: no entry of the lines it had is lost or moved.
C2_AppendOrder ==
    (op = "logged" /\ ~Loads(before).raised) =>
        /\ ~Loads(log).raised
        /\ Loads(log).entries = Loads(before).entries \o appended

\* C3: a JSON line without a required field is skipped like a malformed
\* line: the load does not fail and returns every well-formed line.
C3_IncompleteLineSkipped ==
    /\ pc # "crashed"
    /\ op \in {"summary", "exported", "deleted"} \cup CancelledOutcomes
          => loaded = WellFormedEntries(before)

\* C4: on a file of record lines, blank lines and lines that are not JSON,
\* load_entries does not abort and returns exactly the entries of the record
\* lines, in file order.
C4_FaultTolerance ==
    (\A i \in 1..Len(log.lines) : ~IsIncompleteLine(log.lines[i])) =>
        /\ ~Loads(log).raised
        /\ Loads(log).entries = WellFormedEntries(log)
        /\ (op \in {"summary", "exported"} \cup CancelledOutcomes
               => loaded = WellFormedEntries(log))

\* C4 witness: a line that is not JSON between two records, loaded
C4_Witness ==
    /\ op = "summary"
    /\ Len(log.lines) = 3
    /\ IsRecordLine(log.lines[1])
    /\ log.lines[2] = Garbage
    /\ IsRecordLine(log.lines[3])
    /\ Len(loaded) = 2

\* C5 as claimed: total_entries is the number of entries and each station
\* has one total, the sum of quantity_value over all its entries whatever
\* their unit (the station's three buckets taken together).
C5_StationTotals ==
    op = "summary" =>
        /\ summary.total_entries = Len(loaded)
        /\ \A st \in Stations(loaded) :
              FAdd(FAdd(StationBucket(st).weight, StationBucket(st).portions),
                   StationBucket(st).volume)
                = SumQuantity(OfStation(loaded, st))

\* C5 amended: total_entries is the number of entries and each station has
\* three totals by unit: weight, portions and volume are the sums of
\* quantity_value over its entries in lbs, po and qt; an entry in any other
\* unit adds to no total.
C5_StationBuckets ==
    op = "summary" =>
        /\ summary.total_entries = Len(loaded)
        /\ \A st \in Stations(loaded) \cup DOMAIN summary.by_station :
              /\ StationBucket(st).weight
                    = SumQuantity(OfUnit(OfStation(loaded, st), T_lbs))
              /\ StationBucket(st).portions
                    = SumQuantity(OfUnit(OfStation(loaded, st), T_po))
              /\ StationBucket(st).volume
                    = SumQuantity(OfUnit(OfStation(loaded, st), T_qt))

\* C5 witness: a station with two entries in lbs and one in po, summarised
C5_Witness ==
    /\ op = "summary"
    /\ \E st \in Stations(loaded) :
          /\ Len(OfUnit(OfStation(loaded, st), T_lbs)) = 2
          /\ Len(OfUnit(OfStation(loaded, st), T_po)) = 1

\* C6: every entry the log-entry action appends has its station, waste type
\* and unit in the valid lists, a non-empty trimmed item name and a quantity
\* greater than zero.
C6_CreationValid ==
    \A i \in 1..Len(appended) : ValidEntry(appended[i])

\* C7: a delete that finds the log empty, reads an empty search term, finds
\* no match, reads a selection that is not a number, is 0 or is out of
\* range, or is not confirmed with 'y', returns to the menu and leaves the
\* log file as it was.
NoTarget ==
    \/ loaded = <<>>
    \/ /\ Len(answers) >= 1
       /\ \/ Strip(answers[1]) = <<>>
          \/ Found(answers[1], loaded) = <<>>
    \/ /\ Len(answers) >= 2
       /\ \/ ~ParseInt(answers[2]).ok
          \/ ParseInt(answers[2]).v < 1
          \/ ParseInt(answers[2]).v > Len(Found(answers[1], loaded))
    \/ /\ Len(answers) = 3
       /\ Lower(Strip(answers[3])) # T_y

C7_CancelledDeleteNoChange ==
    (op \in CancelledOutcomes \cup {"deleted"} /\ NoTarget) =>
        /\ pc = "menu"
        /\ log = before
        /\ op # "deleted"

\* C7 witness: a delete that was not confirmed, on a file with a blank line
C7_Witness ==
    /\ op = "delete_unconfirmed"
    /\ Len(answers) = 3
    /\ selected # <<>>
    /\ \E i \in 1..Len(log.lines) : log.lines[i] = Blank

\* C8: from_json(to_json(e)) gives back every field of a valid entry e; the
\* id and the timestamp are those of e, not those the constructor makes.
C8_RoundTrip ==
    \A e \in Range(appended) \cup Range(loaded) :
        ValidEntry(e) =>
            from_json(to_json(e), nextId, clock) = [err |-> "ok", entries |-> << e >>]

\* C8 witness: an entry made by the program, with notes, whose id and
\* timestamp differ from what the constructor would make now
C8_Witness ==
    /\ op = "logged"
    /\ ValidEntry(appended[1])
    /\ appended[1].notes # <<>>
    /\ appended[1].id # nextId
    /\ appended[1].timestamp # clock

\* C9: when 'oz' is chosen, the appended entry is in lbs with the entered
\* value divided by 16, and no appended entry is ever in oz.
C9_OunceConversion ==
    op = "logged" =>
        /\ appended[1].quantity_type # T_oz
        /\ draft.entered_type = T_oz =>
              /\ appended[1].quantity_type = T_lbs
              /\ IF draft.entered_value.k = "num"
                 THEN /\ appended[1].quantity_value.k = "num"
                      /\ appended[1].quantity_value.n * 16 = draft.entered_value.n
                 ELSE appended[1].quantity_value = draft.entered_value
        /\ draft.entered_type # T_oz =>
              /\ appended[1].quantity_type = draft.entered_type
              /\ appended[1].quantity_value = draft.entered_value

\* C9 witness: 2 oz entered, 2/16 lbs appended
C9_Witness ==
    /\ op = "logged"
    /\ draft.entered_type = T_oz
    /\ draft.entered_value = Num(2 * Scale)
    /\ appended[1].quantity_value = Num(2 * 16)

\* C10: once a delete was confirmed, the log file is only record lines, each
\* ended by a newline: right after the delete one per remaining loaded entry,
\* and never again a blank or unparseable line, so a load skips nothing.
C10_RewriteCleans ==
    /\ deleted # {} =>
          /\ log.exists
          /\ log.eofnl
          /\ \A i \in 1..Len(log.lines) : IsRecordLine(log.lines[i])
          /\ Loads(log).warnings = 0
          /\ Len(Loads(log).entries) = Len(log.lines)
    /\ op = "deleted" =>
          /\ Len(log.lines) = Len(SelectSeq(loaded, LAMBDA e : e.id # selected[1].id))
          /\ WellFormedEntries(log)
                = SelectSeq(loaded, LAMBDA e : e.id # selected[1].id)

\* C10 witness: the file had an unparseable line before the delete and still
\* has a record after it
C10_Witness ==
    /\ op = "deleted"
    /\ \E i \in 1..Len(before.lines) : before.lines[i] = Garbage
    /\ Len(before.lines) = 3
    /\ Len(log.lines) = 1

====
